---- MODULE Spec2Model ----
(***************************************************************************)
(* Gratefulness Jar: the entry store (Dexie table `entries`), the entry    *)
(* service (validateEntry, createEntry, updateEntry, deleteEntry and the   *)
(* readers), the date service predicates, importDatabase, and the entry     *)
(* cache (the zustand store useEntryStore) that mirrors the table; further *)
(* exportDatabase and clearDatabase, calculateMonthStats and               *)
(* getRelativeTime.                                                        *)
(*                                                                         *)
(* Strings are modelled by what the code observes of them:                 *)
(*  - a gratitude text is [lead, body, trail]: the number of leading       *)
(*    whitespace characters, the length of the part String.trim() keeps,   *)
(*    and the number of trailing whitespace characters;                    *)
(*  - a date string is [kind, day]: "ymd" is a real calendar date written  *)
(*    YYYY-MM-DD (day = its day number), "empty" is '', "badcal" matches   *)
(*    the pattern but is no calendar date ('2024-02-30'), "badshape" is    *)
(*    accepted by parseISO but not by the pattern ('20240601').            *)
(* An object is a record whose DOMAIN is the set of its own properties, so *)
(* `x.f !== undefined` is `"f" \in DOMAIN x`.                               *)
(***************************************************************************)
EXTENDS Integers, Sequences, FiniteSets, TLC

----------------------------------------------------------------------------
(* Bounds of the model *)

MaxOps == 2        \* calls issued and ticks of the clock in one behaviour
MaxBatch == 2      \* records in one import

(* Program constants *)

MaxTextLength == 1000
MinRating == 1
MaxRating == 7

Procs == {"p1", "p2"}      \* concurrently running async calls
ForeignIds == {100}        \* an id of a backup made elsewhere

Null == [null |-> TRUE]    \* null / undefined result

\* A number is an integer, or one of two values written as integers no
\* rating or timestamp takes: NaN, which every comparison with < and >
\* answers with false, and the null JSON.parse puts where a number was
NaN == -1000
NullNumber == -2000

----------------------------------------------------------------------------
(* Strings *)

Text(l, b, t) == [lead |-> l, body |-> b, trail |-> t]

EmptyText == Text(0, 0, 0)

length(text) == text.lead + text.body + text.trail

trim(text) == Text(0, text.body, 0)

DateStr(k, d) == [kind |-> k, day |-> d]

Ymd(d) == DateStr("ymd", d)

EmptyDate == DateStr("empty", 0)

BadCalDate == DateStr("badcal", 0)

BadShapeDate(d) == DateStr("badshape", d)

----------------------------------------------------------------------------
(* dateService *)

getTodayDateString(today) == Ymd(today)

parseISOValid(dateString) == dateString.kind \in {"ymd", "badshape"}

matchesPattern(dateString) == dateString.kind \in {"ymd", "badcal"}

isValidDateString(dateString) ==
    parseISOValid(dateString) /\ matchesPattern(dateString)

isFuture(dateString, today) ==
    IF parseISOValid(dateString) THEN dateString.day > today ELSE FALSE

----------------------------------------------------------------------------
(* validateEntry *)

\* mutant: the limit is compared with >= instead of >
ErrText_OffByOne(data) ==
    LET text == IF "gratitude_text" \in DOMAIN data THEN data.gratitude_text ELSE EmptyText
    IN  IF trim(text) = EmptyText
        THEN << [field |-> "gratitude_text", message |-> "Gratitude text is required"] >>
        ELSE IF length(text) >= MaxTextLength
        THEN << [field |-> "gratitude_text",
                 message |-> "Gratitude text must be 1000 characters or less"] >>
        ELSE << >>

ErrText(data) ==
    LET text == IF "gratitude_text" \in DOMAIN data /\ data.gratitude_text # EmptyText
                THEN data.gratitude_text ELSE EmptyText
    IN  IF trim(text) = EmptyText
        THEN << [field |-> "gratitude_text", message |-> "Gratitude text is required"] >>
        ELSE IF length(text) > MaxTextLength
        THEN << [field |-> "gratitude_text",
                 message |-> "Gratitude text must be 1000 characters or less"] >>
        ELSE << >>

\* mutant: no rating is refused
ErrRating_Accepts(data) == << >>

ErrRating(data) ==
    IF "rating" \notin DOMAIN data \/ data.rating = NullNumber
    THEN << [field |-> "rating", message |-> "Rating is required"] >>
    ELSE IF data.rating # NaN /\ (data.rating < MinRating \/ data.rating > MaxRating)
    THEN << [field |-> "rating", message |-> "Rating must be between 1 and 7"] >>
    ELSE << >>

ErrDate(data, today) ==
    IF ~isValidDateString(data.entry_date)
    THEN << [field |-> "entry_date", message |-> "Invalid date format (use YYYY-MM-DD)"] >>
    ELSE IF isFuture(data.entry_date, today)
    THEN << [field |-> "entry_date",
             message |-> "Cannot create entries for future dates"] >>
    ELSE << >>

validateEntry(data, isUpdate, today) ==
    LET e1 == IF ~isUpdate \/ "gratitude_text" \in DOMAIN data
              THEN ErrText(data) ELSE << >>
        e2 == IF ~isUpdate \/ "rating" \in DOMAIN data
              THEN ErrRating(data) ELSE << >>
        e3 == IF ~isUpdate /\ "entry_date" \in DOMAIN data /\ data.entry_date # EmptyDate
              THEN ErrDate(data, today) ELSE << >>
        errors == e1 \o e2 \o e3
    IN  [valid |-> Len(errors) = 0, errors |-> errors]

----------------------------------------------------------------------------
(* State *)

VARIABLES
    store,      \* db.entries: the set of persisted Entry records
    now,        \* Date.now()
    nextId,     \* the next value uuidv4() returns
    nops,       \* calls issued and ticks of the clock so far
    pc,         \* pc[p]: where the async call of p is suspended
    op,         \* op[p]: the operation p runs
    input,      \* input[p]: the payload of that call
    target,     \* target[p]: the id argument of that call
    existing,   \* existing[p]: what the read of that call returned
    local,      \* local[p]: the `entry` / `updatedEntry` that call built, the
                \* date string it took, or what its last turn logged
    batch,      \* batch[p]: the records importDatabase has still to add
    imported,   \* imported[p]: importDatabase's counter
    last,       \* the call that settled last (its operation, the properties of
                \* its payload, its id argument, the await it settled at) and
                \* what its caller got
    vData, vIsUpdate, vResult,   \* one application of validateEntry
    fArgs,      \* the arguments of one application of calculateMonthStats or
                \* of getRelativeTime
    fResult,    \* what that application returned
    backup,     \* the string exportDatabase returned last
    state       \* useEntryStore's state: entries, todayEntry, selectedEntry,
                \* isLoading, error

procVars == << pc, op, input, target, existing, local, batch, imported >>

valVars == << vData, vIsUpdate, vResult >>

\* what only the functions checked on their own and the backup change
aloneVars == << valVars, fArgs, fResult, backup >>

vars == << store, now, nextId, nops, procVars, last, aloneVars, state >>

\* the local calendar day of a timestamp: a tick of the clock is a day later,
\* the run starts on day 2 (timestamp 0 lies on day 1)
Day(time) == time + 1

today == Day(now)

Entry(id, date, text, rating, created, updated) ==
    [id |-> id, entry_date |-> date, gratitude_text |-> text, rating |-> rating,
     created_at |-> created, updated_at |-> updated]

\* `error: null` of the cache (messages are strings, never this one)
NoError == "null"

\* useEntryStore: the initial state
InitialState ==
    [entries |-> << >>, todayEntry |-> Null, selectedEntry |-> Null,
     isLoading |-> FALSE, error |-> NoError]

NoCall ==
    [op |-> "none", fields |-> {}, target |-> 0, at |-> "", status |-> "none",
     error |-> "", value |-> Null, count |-> 0]

Ok(v) == [status |-> "ok", error |-> "", value |-> v]

Err(kind) == [status |-> "error", error |-> kind, value |-> Null]

\* the operation caught the failure `kind` itself and resolved with v
Caught(kind, v) == [status |-> "ok", error |-> kind, value |-> v]

----------------------------------------------------------------------------
(* The Dexie table: primary key id, unique index &entry_date *)

dbFirstByDate(s, dateString) ==
    IF \E e \in s : e.entry_date = dateString
    THEN CHOOSE e \in s : e.entry_date = dateString
    ELSE Null

dbGet(s, id) ==
    IF \E e \in s : e.id = id THEN CHOOSE e \in s : e.id = id ELSE Null

\* mutant: entry_date is indexed, but not unique
dbCanAdd_DateNotUnique(s, entry) == \A e \in s : e.id # entry.id

\* mutant: add() overwrites nothing but does not check the key either
dbCanAdd_KeyNotChecked(s, entry) == \A e \in s : e.entry_date # entry.entry_date

\* add() rejects with ConstraintError when the key or a unique index collides
dbCanAdd(s, entry) ==
    \A e \in s : e.id # entry.id /\ e.entry_date # entry.entry_date

dbAdd(s, entry) == s \cup {entry}

\* mutant: the record is looked up but never removed
dbDelete_Keeps(s, id) == s

dbDelete(s, id) == {e \in s : e.id # id}

\* update(key, changes): the outcomes [ok, store] of modifying the record
\* under `key` with every property of `changes`.  No record under the key:
\* nothing is modified and the call resolves (with 0).  A changed unique
\* index that collides rejects.  A changed primary key is a delete and an
\* add, which the engine may reject.
dbUpdate(s, id, changes) ==
    LET old == dbGet(s, id)
        new == [f \in DOMAIN old \cup DOMAIN changes |->
                   IF f \in DOMAIN changes THEN changes[f] ELSE old[f]]
        rest == s \ {old}
        free == \A e \in rest : e.id # new.id /\ e.entry_date # new.entry_date
    IN  IF old = Null THEN {[ok |-> TRUE, store |-> s]}
        ELSE IF new.id = id
        THEN IF free THEN {[ok |-> TRUE, store |-> rest \cup {new}]}
                     ELSE {[ok |-> FALSE, store |-> s]}
        ELSE {[ok |-> FALSE, store |-> s]}
             \cup IF free THEN {[ok |-> TRUE, store |-> rest \cup {new}]} ELSE {}

----------------------------------------------------------------------------
(* entryService readers *)

\* mutant: the query never matches
getEntryByDate_Miss(s, dateString) == Null

getEntryByDate(s, dateString) == dbFirstByDate(s, dateString)

getEntryById(s, id) == dbGet(s, id)

getTodayEntry(s, day) == dbFirstByDate(s, getTodayDateString(day))

----------------------------------------------------------------------------
(* Inputs *)

Only(S) == CHOOSE x \in S : TRUE

\* the object with the properties whose option set is not empty
Payload(ids, dates, texts, ratings, createds) ==
    [f \in {"id" : x \in ids} \cup {"entry_date" : x \in dates}
           \cup {"gratitude_text" : x \in texts} \cup {"rating" : x \in ratings}
           \cup {"created_at" : x \in createds} |->
        CASE f = "id" -> Only(ids)
          [] f = "entry_date" -> Only(dates)
          [] f = "gratitude_text" -> Only(texts)
          [] f = "rating" -> Only(ratings)
          [] f = "created_at" -> Only(createds)]

Opt(S) == {{}} \cup {{x} : x \in S}

TextA == Text(1, 1, 1)                \* ' a '

TextB == Text(0, MaxTextLength, 0)    \* 1000 characters, no padding

BlankText == Text(1, 0, 0)            \* ' '

LongText == Text(0, MaxTextLength + 1, 0)

\* createEntry's payloads: well-formed ones for a past day, today and the
\* empty date, and one payload per way of being rejected
CreateInputs ==
    {Payload({}, {d}, {tr[1]}, {tr[2]}, {}) :
        d \in {Ymd(1), Ymd(2), EmptyDate},
        tr \in {<< TextA, MinRating >>, << TextB, MaxRating >>}}
    \cup {Payload({}, {d}, {TextA}, {MinRating}, {}) : d \in {Ymd(3), BadCalDate}}
    \cup {Payload({}, {Ymd(1)}, {t}, {MaxRating}, {}) : t \in {BlankText, LongText}}
    \cup {Payload({}, {Ymd(1)}, {TextA}, {MaxRating + 1}, {})}

CreateTodayInputs ==
    {Payload({}, {}, {TextA}, {MaxRating}, {}),
     Payload({}, {}, {BlankText}, {MinRating - 1}, {})}

\* UpdateEntryInput, and what an untyped caller (`data: any`) can pass besides
UpdateInputs ==
    {Payload({}, {}, {t}, {}, {}) : t \in {TextA, TextB, BlankText}}
    \cup {Payload({}, {}, {}, {r}, {}) : r \in {MinRating, MaxRating, MaxRating + 1}}
    \cup {Payload({}, {}, {TextB}, {MinRating}, {})}
    \cup {Payload({i}, {}, {}, {}, {}) : i \in ForeignIds}
    \cup {Payload({}, {d}, {}, {}, {}) : d \in {Ymd(1), BadCalDate}}
    \cup {Payload({}, {}, {}, {}, {c}) : c \in {2}}

\* ids a caller can name: every id handed out so far, and a foreign one
KnownIds(n) == 1..(n - 1) \cup ForeignIds

\* records of a backup file: well-formed ones, whose id or date may be
\* taken, and one no create would store
ImportRecords(s) ==
    {Entry(i, Ymd(1), Text(0, 1, 0), MaxRating, 1, 1) :
        i \in {e.id : e \in s} \cup ForeignIds}
    \cup {Entry(i, Ymd(2), Text(2, 0, 0), MaxRating + 2, 2, 1) : i \in ForeignIds}

\* the arrays an import is given: lists of distinct records
Batches(s) ==
    UNION {{b \in [1..n -> ImportRecords(s)] : \A i, j \in 1..n : i # j => b[i] # b[j]} :
              n \in 0..MaxBatch}

----------------------------------------------------------------------------
(* Bookkeeping of a call *)

Idle == [p \in Procs |-> "idle"]

\* a call starts on p1, and on p2 while another call is in flight
CanStart(p) ==
    /\ pc[p] = "idle"
    /\ p = "p1" \/ pc["p1"] # "idle"
    /\ nops < MaxOps

Frame(p, label, name, data, id, found, entry, entries, n) ==
    /\ pc' = [pc EXCEPT ![p] = label]
    /\ op' = [op EXCEPT ![p] = name]
    /\ input' = [input EXCEPT ![p] = data]
    /\ target' = [target EXCEPT ![p] = id]
    /\ existing' = [existing EXCEPT ![p] = found]
    /\ local' = [local EXCEPT ![p] = entry]
    /\ batch' = [batch EXCEPT ![p] = entries]
    /\ imported' = [imported EXCEPT ![p] = n]

\* the call moves on to its next await
Goto(p, label, found, entry) ==
    /\ Frame(p, label, op[p], input[p], target[p], found, entry, batch[p], imported[p])
    /\ UNCHANGED last

\* the call settles at `label`: resolved with Ok(v) or rejected with Err(kind)
Settle(p, label, name, data, id, n, r) ==
    /\ Frame(p, "idle", "none", Null, 0, Null, Null, << >>, 0)
    /\ last' = [op |-> name, fields |-> IF data = Null THEN {} ELSE DOMAIN data,
                target |-> id, at |-> label,
                status |-> r.status, error |-> r.error, value |-> r.value, count |-> n]

SettleAt(p, r) == Settle(p, pc[p], op[p], input[p], target[p], imported[p], r)

----------------------------------------------------------------------------
(* createEntry / createTodayEntry *)

\* the synchronous part: validate, then issue the read
createEntryCall(p, name, data) ==
    /\ CanStart(p)
    /\ nops' = nops + 1
    /\ IF validateEntry(data, FALSE, today).valid
       THEN Frame(p, "create_read", name, data, 0, Null, Null, << >>, 0) /\ UNCHANGED last
       ELSE Settle(p, "call", name, data, 0, 0, Err("validation"))
    /\ UNCHANGED << store, now, nextId, aloneVars >>

CreateCall(p, data) == createEntryCall(p, "create", data)

CreateTodayCall(p, data) ==
    createEntryCall(p, "createToday",
        [f \in DOMAIN data \cup {"entry_date"} |->
            IF f = "entry_date" THEN getTodayDateString(today) ELSE data[f]])

\* mutant: the text is stored as typed
newEntry_Untrimmed(data, id, time) ==
    Entry(id, data.entry_date, data.gratitude_text, data.rating, time, time)

newEntry(data, id, time) ==
    Entry(id, data.entry_date, trim(data.gratitude_text), data.rating, time, time)

\* `existing` is read; a free date builds the entry and issues the add
CreateRead(p, ok) ==
    /\ pc[p] = "create_read"
    /\ IF ~ok
       THEN SettleAt(p, Err("storage")) /\ UNCHANGED nextId
       ELSE IF getEntryByDate(store, input[p].entry_date) # Null
       THEN SettleAt(p, Err("duplicate")) /\ UNCHANGED nextId
       ELSE /\ Goto(p, "create_add", Null, newEntry(input[p], nextId, now))
            /\ nextId' = nextId + 1
    /\ UNCHANGED << store, now, nops, aloneVars >>

\* db.entries.add(entry) settles; a ConstraintError is reported as a
\* duplicate when its message contains 'constraint', as a save failure if not
CreateAdd(p, ok, kind) ==
    /\ pc[p] = "create_add"
    /\ IF ok /\ dbCanAdd(store, local[p])
       THEN /\ store' = dbAdd(store, local[p])
            /\ SettleAt(p, Ok(local[p]))
            /\ kind = "storage"
       ELSE /\ UNCHANGED store
            /\ SettleAt(p, Err(kind))
            /\ (ok \/ kind = "storage")
    /\ UNCHANGED << now, nextId, nops, aloneVars >>

----------------------------------------------------------------------------
(* updateEntry *)

UpdateCall(p, id, updates) ==
    /\ CanStart(p)
    /\ nops' = nops + 1
    /\ IF validateEntry(updates, TRUE, today).valid
       THEN Frame(p, "update_read", "update", updates, id, Null, Null, << >>, 0)
            /\ UNCHANGED last
       ELSE Settle(p, "call", "update", updates, id, 0, Err("validation"))
    /\ UNCHANGED << store, now, nextId, aloneVars >>

\* mutant: the text falls back to '' instead of the existing text
mergeEntry_DropsText(found, updates, time) ==
    [f \in DOMAIN found \cup DOMAIN updates |->
        CASE f = "gratitude_text" ->
                 IF "gratitude_text" \in DOMAIN updates
                 THEN trim(updates.gratitude_text) ELSE EmptyText
          [] f = "updated_at" -> time
          [] f \notin {"gratitude_text", "updated_at"} /\ f \in DOMAIN updates -> updates[f]
          [] OTHER -> found[f]]

\* { ...existing, ...updates, gratitude_text: ..., updated_at: Date.now() },
\* `found` being the `existing` the read returned
mergeEntry(found, updates, time) ==
    [f \in DOMAIN found \cup DOMAIN updates |->
        CASE f = "gratitude_text" ->
                 IF "gratitude_text" \in DOMAIN updates
                 THEN trim(updates.gratitude_text) ELSE found.gratitude_text
          [] f = "updated_at" -> time
          [] f \notin {"gratitude_text", "updated_at"} /\ f \in DOMAIN updates -> updates[f]
          [] OTHER -> found[f]]

UpdateRead(p, ok) ==
    /\ pc[p] = "update_read"
    /\ IF ~ok
       THEN SettleAt(p, Err("storage"))
       ELSE IF getEntryById(store, target[p]) = Null
       THEN SettleAt(p, Err("notfound"))
       ELSE Goto(p, "update_write", getEntryById(store, target[p]),
                 mergeEntry(getEntryById(store, target[p]), input[p], now))
    /\ UNCHANGED << store, now, nextId, nops, aloneVars >>

UpdateWrite(p, ok) ==
    /\ pc[p] = "update_write"
    /\ IF ~ok
       THEN UNCHANGED store /\ SettleAt(p, Err("storage"))
       ELSE \E out \in dbUpdate(store, target[p], local[p]) :
               /\ store' = out.store
               /\ SettleAt(p, IF out.ok THEN Ok(local[p]) ELSE Err("storage"))
    /\ UNCHANGED << now, nextId, nops, aloneVars >>

----------------------------------------------------------------------------
(* deleteEntry *)

DeleteCall(p, id) ==
    /\ CanStart(p)
    /\ nops' = nops + 1
    /\ Frame(p, "delete_read", "delete", Null, id, Null, Null, << >>, 0)
    /\ UNCHANGED << store, now, nextId, last, aloneVars >>

DeleteRead(p, ok) ==
    /\ pc[p] = "delete_read"
    /\ IF ~ok
       THEN SettleAt(p, Err("storage"))
       ELSE IF getEntryById(store, target[p]) = Null
       THEN SettleAt(p, Err("notfound"))
       ELSE Goto(p, "delete_del", getEntryById(store, target[p]), Null)
    /\ UNCHANGED << store, now, nextId, nops, aloneVars >>

DeleteDel(p, ok) ==
    /\ pc[p] = "delete_del"
    /\ IF ok
       THEN store' = dbDelete(store, target[p]) /\ SettleAt(p, Ok(Null))
       ELSE UNCHANGED store /\ SettleAt(p, Err("storage"))
    /\ UNCHANGED << now, nextId, nops, aloneVars >>

----------------------------------------------------------------------------
(* importDatabase *)

\* JSON.parse and the Array.isArray check, then the loop
ImportCall(p, isArray, entries) ==
    /\ CanStart(p)
    /\ nops' = nops + 1
    /\ IF isArray
       THEN Frame(p, "import_loop", "import", Null, 0, Null, Null, entries, 0)
            /\ UNCHANGED last
       ELSE /\ Settle(p, "call", "import", Null, 0, 0, Err("invalid_import"))
            /\ entries = << >>
    /\ UNCHANGED << store, now, nextId, aloneVars >>

\* console.warn('Skipped entry:', entry.id, error): a record whose key or
\* date is taken is rejected with a ConstraintError whatever else happens
Skipped(s, entry) ==
    [skipped |-> entry.id,
     error |-> IF dbCanAdd(s, entry) THEN "storage" ELSE "constraint"]

\* one turn of the loop: add the next record and count it, or log the
\* rejection of the add and go on
ImportAdd(p, ok) ==
    /\ pc[p] = "import_loop"
    /\ batch[p] # << >>
    /\ LET entry == Head(batch[p])
       IN  IF ok /\ dbCanAdd(store, entry)
           THEN /\ store' = dbAdd(store, entry)
                /\ imported' = [imported EXCEPT ![p] = @ + 1]
                /\ local' = [local EXCEPT ![p] = Null]
           ELSE /\ UNCHANGED << store, imported >>
                /\ local' = [local EXCEPT ![p] = Skipped(store, entry)]
    /\ batch' = [batch EXCEPT ![p] = Tail(@)]
    /\ UNCHANGED << now, nextId, nops, pc, op, input, target, existing, last, aloneVars >>

ImportReturn(p) ==
    /\ pc[p] = "import_loop"
    /\ batch[p] = << >>
    /\ SettleAt(p, Ok(Null))
    /\ UNCHANGED << store, now, nextId, nops, aloneVars >>

----------------------------------------------------------------------------
(* Time *)

Tick ==
    /\ nops < MaxOps
    /\ nops' = nops + 1
    /\ now' = now + 1
    /\ UNCHANGED << store, nextId, procVars, last, aloneVars >>

----------------------------------------------------------------------------
(* The store and its clients *)

\* what earlier sessions left in the database: an entry written yesterday
Entry1 == Entry(1, Ymd(1), Text(0, 1, 0), MinRating, 0, 0)

Init ==
    /\ store = {Entry1}
    /\ now = 1
    /\ nextId = 2
    /\ nops = 0
    /\ pc = Idle
    /\ op = [p \in Procs |-> "none"]
    /\ input = [p \in Procs |-> Null]
    /\ target = [p \in Procs |-> 0]
    /\ existing = [p \in Procs |-> Null]
    /\ local = [p \in Procs |-> Null]
    /\ batch = [p \in Procs |-> << >>]
    /\ imported = [p \in Procs |-> 0]
    /\ last = NoCall
    /\ vData = Null
    /\ vIsUpdate = FALSE
    /\ vResult = Null
    /\ fArgs = Null
    /\ fResult = Null
    /\ backup = Null
    /\ state = InitialState

\* a step of the entry service or of importDatabase, called directly
ServiceStep ==
    \/ \E p \in Procs, data \in CreateInputs : CreateCall(p, data)
    \/ \E p \in Procs, data \in CreateTodayInputs : CreateTodayCall(p, data)
    \/ \E p \in Procs, ok \in BOOLEAN : CreateRead(p, ok)
    \/ \E p \in Procs, ok \in BOOLEAN, kind \in {"duplicate", "storage"} :
          CreateAdd(p, ok, kind)
    \/ \E p \in Procs, id \in KnownIds(nextId), updates \in UpdateInputs :
          UpdateCall(p, id, updates)
    \/ \E p \in Procs, ok \in BOOLEAN : UpdateRead(p, ok)
    \/ \E p \in Procs, ok \in BOOLEAN : UpdateWrite(p, ok)
    \/ \E p \in Procs, id \in KnownIds(nextId) : DeleteCall(p, id)
    \/ \E p \in Procs, ok \in BOOLEAN : DeleteRead(p, ok)
    \/ \E p \in Procs, ok \in BOOLEAN : DeleteDel(p, ok)
    \/ \E p \in Procs, isArray \in BOOLEAN, entries \in Batches(store) :
          ImportCall(p, isArray, entries)
    \/ \E p \in Procs, ok \in BOOLEAN : ImportAdd(p, ok)
    \/ \E p \in Procs : ImportReturn(p)
    \/ Tick

Next == ServiceStep /\ UNCHANGED state

Spec == Init /\ [][Next]_vars

----------------------------------------------------------------------------
(* Order of entry_date strings *)

\* the place of a date string among the strings of the model, in the order
\* of String.localeCompare and of the IndexedDB keys alike: '' first, the
\* YYYY-MM-DD dates by day, the digits-only dates after them ('-' sorts
\* before '0'), and the impossible date ('9999-99-99') last
dateRank(dateString) ==
    CASE dateString.kind = "empty" -> 0
      [] dateString.kind = "ymd" -> dateString.day
      [] dateString.kind = "badshape" -> 50 + dateString.day
      [] dateString.kind = "badcal" -> 99

localeCompare(a, b) == dateRank(a) - dateRank(b)

\* array.sort((a, b) => b.entry_date.localeCompare(a.entry_date)), a stable
\* sort: equal dates keep their order
RECURSIVE sortByDateDesc(_)
sortByDateDesc(seq) ==
    IF seq = << >> THEN << >>
    ELSE LET n == Len(seq)
             x == seq[n]
             sorted == sortByDateDesc(SubSeq(seq, 1, n - 1))
             k == Cardinality({i \in 1..Len(sorted) :
                     localeCompare(sorted[i].entry_date, x.entry_date) >= 0})
         IN  SubSeq(sorted, 1, k) \o << x >> \o SubSeq(sorted, k + 1, Len(sorted))

\* db.entries.orderBy('entry_date').reverse().toArray()
RECURSIVE getAllEntries(_)
getAllEntries(s) ==
    IF s = {} THEN << >>
    ELSE LET newest == CHOOSE e \in s :
                 \A o \in s : dateRank(o.entry_date) <= dateRank(e.entry_date)
         IN  << newest >> \o getAllEntries(s \ {newest})

----------------------------------------------------------------------------
(* useEntryStore: what the actions do to the state once the service call *)
(* has settled                                                            *)

\* entries.filter((e) => e.id !== id)
withoutId(seq, id) ==
    LET F[i \in 0..Len(seq)] ==
            IF i = 0 THEN << >>
            ELSE IF seq[i].id # id THEN Append(F[i - 1], seq[i]) ELSE F[i - 1]
    IN  F[Len(seq)]

hasId(entry, id) == entry # Null /\ entry.id = id

\* mutant: the new record is put in front, the list is not sorted
createdState_Unsorted(st, entry, inputDate, day) ==
    [st EXCEPT !.entries = << entry >> \o @,
               !.todayEntry = IF inputDate = getTodayDateString(day) THEN entry ELSE @]

\* createEntry, lines 108-116
createdState(st, entry, inputDate, day) ==
    [st EXCEPT !.entries = sortByDateDesc(<< entry >> \o @),
               !.todayEntry = IF inputDate = getTodayDateString(day) THEN entry ELSE @]

\* mutant: selectedEntry is not patched
updatedState_KeepsSelected(st, id, updatedEntry) ==
    [st EXCEPT !.entries = [i \in DOMAIN @ |-> IF @[i].id = id THEN updatedEntry ELSE @[i]],
               !.todayEntry = IF hasId(@, id) THEN updatedEntry ELSE @]

\* updateEntry, lines 145-151
updatedState(st, id, updatedEntry) ==
    [st EXCEPT !.entries = [i \in DOMAIN @ |-> IF @[i].id = id THEN updatedEntry ELSE @[i]],
               !.todayEntry = IF hasId(@, id) THEN updatedEntry ELSE @,
               !.selectedEntry = IF hasId(@, id) THEN updatedEntry ELSE @]

\* mutant: todayEntry keeps the deleted record
deletedState_KeepsToday(st, id) ==
    [st EXCEPT !.entries = withoutId(@, id),
               !.selectedEntry = IF hasId(@, id) THEN Null ELSE @]

\* deleteEntry, lines 172-177
deletedState(st, id) ==
    [st EXCEPT !.entries = withoutId(@, id),
               !.todayEntry = IF hasId(@, id) THEN Null ELSE @,
               !.selectedEntry = IF hasId(@, id) THEN Null ELSE @]

\* mutant: the error of the previous action stays
clearedState_KeepsError(st) == st

\* set({ error: null })
clearedState(st) == [st EXCEPT !.error = NoError]

\* mutant: the message is not recorded
failedState_NoMessage(st, message) == st

\* mutant: the views are reset when the call fails
failedState_Resets(st, message) ==
    [st EXCEPT !.error = message, !.entries = << >>]

\* the catch blocks of createEntry, updateEntry and deleteEntry
failedState(st, message) == [st EXCEPT !.error = message]

\* the continuation of the action of p, run when its service call settles
\* in this step: the reducer of the action, or its catch block.  It runs as
\* a microtask of the turn in which the service's promise settles, before
\* any other storage request can call back, hence in the same step.
cacheResume(p) ==
    state' =
        IF pc'[p] # "idle" THEN state
        ELSE IF last'.status = "error" THEN failedState(state, last'.error)
        ELSE CASE op[p] \in {"create", "createToday"} ->
                      createdState(state, last'.value, input[p].entry_date, today)
               [] op[p] = "update" -> updatedState(state, target[p], last'.value)
               [] op[p] = "delete" -> deletedState(state, target[p])

----------------------------------------------------------------------------
(* useEntryStore: the actions *)

\* set({ error: null }), then entryService.createEntry(input): an invalid
\* input rejects the service's promise at once, and the catch block runs
\* in a later turn
CacheCreateEntry(p, name, data) ==
    /\ CanStart(p)
    /\ nops' = nops + 1
    /\ state' = clearedState(state)
    /\ Frame(p, IF validateEntry(data, FALSE, today).valid THEN "create_read" ELSE "rejected",
             name, data, 0, Null, Null, << >>, 0)
    /\ UNCHANGED << store, now, nextId, last, aloneVars >>

CacheCreateTodayEntry(p, data) ==
    CacheCreateEntry(p, "createToday",
        [f \in DOMAIN data \cup {"entry_date"} |->
            IF f = "entry_date" THEN getTodayDateString(today) ELSE data[f]])

CacheUpdateEntry(p, id, updates) ==
    /\ CanStart(p)
    /\ nops' = nops + 1
    /\ state' = clearedState(state)
    /\ Frame(p, IF validateEntry(updates, TRUE, today).valid THEN "update_read" ELSE "rejected",
             "update", updates, id, Null, Null, << >>, 0)
    /\ UNCHANGED << store, now, nextId, last, aloneVars >>

CacheDeleteEntry(p, id) ==
    /\ DeleteCall(p, id)
    /\ state' = clearedState(state)

\* the rejection of an invalid input reaches the catch block
CacheRejected(p) ==
    /\ pc[p] = "rejected"
    /\ SettleAt(p, Err("validation"))
    /\ cacheResume(p)
    /\ UNCHANGED << store, now, nextId, nops, aloneVars >>

CacheCreateRead(p, ok) == CreateRead(p, ok) /\ cacheResume(p)

CacheCreateAdd(p, ok, kind) == CreateAdd(p, ok, kind) /\ cacheResume(p)

CacheUpdateRead(p, ok) == UpdateRead(p, ok) /\ cacheResume(p)

CacheUpdateWrite(p, ok) == UpdateWrite(p, ok) /\ cacheResume(p)

CacheDeleteRead(p, ok) == DeleteRead(p, ok) /\ cacheResume(p)

CacheDeleteDel(p, ok) == DeleteDel(p, ok) /\ cacheResume(p)

\* loadEntries: set({ isLoading: true, error: null }), then getAllEntries()
CacheLoadEntries(p) ==
    /\ CanStart(p)
    /\ nops' = nops + 1
    /\ state' = [clearedState(state) EXCEPT !.isLoading = TRUE]
    /\ Frame(p, "load_read", "loadEntries", Null, 0, Null, Null, << >>, 0)
    /\ UNCHANGED << store, now, nextId, last, aloneVars >>

\* mutant: a failed read leaves isLoading set
loadedState_StaysLoading(st, ok, entries) ==
    IF ok THEN [st EXCEPT !.entries = entries, !.isLoading = FALSE]
    ELSE [st EXCEPT !.error = "storage"]

\* loadEntries, lines 74-79
loadedState(st, ok, entries) ==
    IF ok THEN [st EXCEPT !.entries = entries, !.isLoading = FALSE]
    ELSE [st EXCEPT !.error = "storage", !.isLoading = FALSE]

\* getAllEntries() settles; the action resolves either way
CacheLoadEntriesRead(p, ok) ==
    /\ pc[p] = "load_read"
    /\ state' = loadedState(state, ok, getAllEntries(store))
    /\ SettleAt(p, IF ok THEN Ok(Null) ELSE Caught("storage", Null))
    /\ UNCHANGED << store, now, nextId, nops, aloneVars >>

\* loadTodayEntry: set({ error: null }), then getTodayEntry(), which takes
\* today's date string before it awaits the query
CacheLoadTodayEntry(p) ==
    /\ CanStart(p)
    /\ nops' = nops + 1
    /\ state' = clearedState(state)
    /\ Frame(p, "today_read", "loadTodayEntry", Null, 0, Null,
             getTodayDateString(today), << >>, 0)
    /\ UNCHANGED << store, now, nextId, last, aloneVars >>

CacheLoadTodayEntryRead(p, ok) ==
    /\ pc[p] = "today_read"
    /\ state' = IF ok THEN [state EXCEPT !.todayEntry = dbFirstByDate(store, local[p])]
                 ELSE [state EXCEPT !.error = "storage"]
    /\ SettleAt(p, IF ok THEN Ok(Null) ELSE Caught("storage", Null))
    /\ UNCHANGED << store, now, nextId, nops, aloneVars >>

\* selectEntry(entry), with an entry of the list or null
CacheSelectEntry(entry) ==
    /\ state' = [state EXCEPT !.selectedEntry = entry]
    /\ UNCHANGED << store, now, nextId, nops, procVars, last, aloneVars >>

CacheClearError ==
    /\ state' = [state EXCEPT !.error = NoError]
    /\ UNCHANGED << store, now, nextId, nops, procVars, last, aloneVars >>

Selectable(st) == {st.entries[i] : i \in DOMAIN st.entries} \cup {Null}

\* what the entry form sends when it edits an entry: UpdateEntryInput
FormUpdateInputs ==
    {updates \in UpdateInputs : DOMAIN updates \subseteq {"gratitude_text", "rating"}}

\* a step of the cache, its actions running on the callers of P and its
\* updateEntry taking the payloads of U
CacheStep(P, U) ==
    \/ \E p \in P, data \in CreateInputs : CacheCreateEntry(p, "create", data)
    \/ \E p \in P, data \in CreateTodayInputs : CacheCreateTodayEntry(p, data)
    \/ \E p \in P, id \in KnownIds(nextId), updates \in U :
          CacheUpdateEntry(p, id, updates)
    \/ \E p \in P, id \in KnownIds(nextId) : CacheDeleteEntry(p, id)
    \/ \E p \in P : CacheRejected(p)
    \/ \E p \in P, ok \in BOOLEAN : CacheCreateRead(p, ok)
    \/ \E p \in P, ok \in BOOLEAN, kind \in {"duplicate", "storage"} :
          CacheCreateAdd(p, ok, kind)
    \/ \E p \in P, ok \in BOOLEAN : CacheUpdateRead(p, ok)
    \/ \E p \in P, ok \in BOOLEAN : CacheUpdateWrite(p, ok)
    \/ \E p \in P, ok \in BOOLEAN : CacheDeleteRead(p, ok)
    \/ \E p \in P, ok \in BOOLEAN : CacheDeleteDel(p, ok)
    \/ \E p \in P : CacheLoadEntries(p)
    \/ \E p \in P, ok \in BOOLEAN : CacheLoadEntriesRead(p, ok)
    \/ \E p \in P : CacheLoadTodayEntry(p)
    \/ \E p \in P, ok \in BOOLEAN : CacheLoadTodayEntryRead(p, ok)
    \/ \E entry \in Selectable(state) : CacheSelectEntry(entry)
    \/ CacheClearError
    \/ Tick /\ UNCHANGED state

\* the application: actions of the cache may overlap, and updateEntry is
\* handed whatever the untyped handler passes on
NextCache == CacheStep(Procs, UpdateInputs)

SpecCache == Init /\ [][NextCache]_vars

\* the storage call of a pending loadEntries eventually resolves or rejects
FairCache ==
    \A p \in Procs : WF_vars(\E ok \in BOOLEAN : CacheLoadEntriesRead(p, ok))

SpecCacheFair == SpecCache /\ FairCache

\* the entries hook has mounted and its loadEntries and loadTodayEntry have
\* succeeded; from then on the user issues one action at a time through
\* the forms
InitLoaded ==
    /\ store = {Entry1}
    /\ now = 1
    /\ nextId = 2
    /\ nops = 0
    /\ pc = Idle
    /\ op = [p \in Procs |-> "none"]
    /\ input = [p \in Procs |-> Null]
    /\ target = [p \in Procs |-> 0]
    /\ existing = [p \in Procs |-> Null]
    /\ local = [p \in Procs |-> Null]
    /\ batch = [p \in Procs |-> << >>]
    /\ imported = [p \in Procs |-> 0]
    /\ last = NoCall
    /\ vData = Null
    /\ vIsUpdate = FALSE
    /\ vResult = Null
    /\ fArgs = Null
    /\ fResult = Null
    /\ backup = Null
    /\ state = [InitialState EXCEPT !.entries = getAllEntries({Entry1})]

NextCacheSeq == CacheStep({"p1"}, FormUpdateInputs)

SpecCacheSeq == InitLoaded /\ [][NextCacheSeq]_vars

----------------------------------------------------------------------------
(* entryService: the read-only operations *)

\* text.toLowerCase().includes(query), the texts and queries of the model
\* being runs of one letter between their blanks
includes(text, query) == query.body <= text.body

\* db.entries.where('entry_date').between(startDate, endDate, true, true)
\* .toArray(), then sorted newest first
getEntriesInRange(s, startDate, endDate) ==
    getAllEntries({e \in s : /\ dateRank(startDate) <= dateRank(e.entry_date)
                             /\ dateRank(e.entry_date) <= dateRank(endDate)})

\* allEntries.filter((entry) => ...includes(normalizedQuery))
searchResult(s, query) ==
    LET all == getAllEntries(s)
        F[i \in 0..Len(all)] ==
            IF i = 0 THEN << >>
            ELSE IF includes(all[i].gratitude_text, trim(query))
                 THEN Append(F[i - 1], all[i]) ELSE F[i - 1]
    IN  F[Len(all)]

\* what getRandomEntry may return: null without candidates, else any of them
randomPicks(s, todayString) ==
    LET candidates == {e \in s : e.entry_date # todayString}
    IN  IF candidates = {} THEN {Null} ELSE candidates

ReadNames ==
    {"getTodayEntry", "getEntryByDate", "getEntryById", "getAllEntries",
     "getEntriesInRange", "getEntryCount", "getRandomEntry", "searchEntries"}

\* the arguments of the calls: a date, a range, a query
ReadArgs(name) ==
    CASE name = "getEntryByDate" -> {[dateString |-> d] : d \in {Ymd(1), Ymd(2)}}
      [] name = "getEntriesInRange" ->
            {[startDate |-> Ymd(1), endDate |-> Ymd(1)],
             [startDate |-> Ymd(1), endDate |-> Ymd(3)]}
      [] name = "searchEntries" ->
            {[query |-> q] : q \in {BlankText, Text(1, 1, 0), Text(0, 2, 0)}}
      [] OTHER -> {Null}

\* a reader is called: it takes today's date string where it needs one and
\* issues its query; searchEntries returns [] for a blank query at once
ReadCall(p, name, args, id) ==
    /\ CanStart(p)
    /\ nops' = nops + 1
    /\ IF name = "searchEntries" /\ trim(args.query) = EmptyText
       THEN Settle(p, "call", name, args, 0, 0, Ok(<< >>))
       ELSE /\ Frame(p, "read", name, args, id, Null, getTodayDateString(today), << >>, 0)
            /\ UNCHANGED last
    /\ UNCHANGED << store, now, nextId, aloneVars >>

\* the catch block of a reader: getEntryCount, getRandomEntry and
\* searchEntries log the failure and return 0, null and []
readFailed(name) ==
    CASE name = "getEntryCount" -> Caught("storage", Null)
      [] name = "getRandomEntry" -> Caught("storage", Null)
      [] name = "searchEntries" -> Caught("storage", << >>)
      [] OTHER -> Err("storage")

\* the query of a reader settles
ReadReturn(p, ok, pick) ==
    /\ pc[p] = "read"
    /\ LET name == op[p]
           value == CASE name = "getTodayEntry" -> dbFirstByDate(store, local[p])
                      [] name = "getEntryByDate" -> getEntryByDate(store, input[p].dateString)
                      [] name = "getEntryById" -> getEntryById(store, target[p])
                      [] name = "getAllEntries" -> getAllEntries(store)
                      [] name = "getEntriesInRange" ->
                            getEntriesInRange(store, input[p].startDate, input[p].endDate)
                      [] name = "getEntryCount" -> Null
                      [] name = "getRandomEntry" -> pick
                      [] name = "searchEntries" -> searchResult(store, input[p].query)
       IN  IF ok
           THEN /\ IF name = "getRandomEntry"
                   THEN pick \in randomPicks(store, local[p]) ELSE pick = Null
                /\ Settle(p, "read", name, input[p], target[p],
                          IF name = "getEntryCount" THEN Cardinality(store) ELSE 0,
                          Ok(value))
           ELSE /\ pick = Null
                /\ Settle(p, "read", name, input[p], target[p], 0, readFailed(name))
    /\ UNCHANGED << store, now, nextId, nops, aloneVars >>

ReaderStep ==
    \/ \E p \in Procs, name \in ReadNames :
          \E args \in ReadArgs(name),
             id \in IF name = "getEntryById" THEN KnownIds(nextId) ELSE {0} :
             ReadCall(p, name, args, id)
    \/ \E p \in Procs, ok \in BOOLEAN, pick \in store \cup {Null} : ReadReturn(p, ok, pick)

\* the whole gateway: the readers beside the writers
NextGateway == (ServiceStep \/ ReaderStep) /\ UNCHANGED state

SpecGateway == Init /\ [][NextGateway]_vars

----------------------------------------------------------------------------
(* validateEntry on its own: one payload, one application *)

ValidateDates ==
    {Ymd(1), Ymd(2), Ymd(3), EmptyDate, BadCalDate, BadShapeDate(1)}

ValidateTexts ==
    {EmptyText, BlankText, TextA, TextB, LongText,
     Text(1, MaxTextLength - 1, 0), Text(1, MaxTextLength, 0)}

ValidateRatings == {MinRating - 1, MinRating, MaxRating, MaxRating + 1}

ValidateInputs ==
    {Payload({}, ds, ts, rs, {}) :
        ds \in Opt(ValidateDates), ts \in Opt(ValidateTexts), rs \in Opt(ValidateRatings)}

InitValidate ==
    /\ store = {Entry1}
    /\ now \in {1, 2}
    /\ nextId = 2
    /\ nops = 0
    /\ pc = Idle
    /\ op = [p \in Procs |-> "none"]
    /\ input = [p \in Procs |-> Null]
    /\ target = [p \in Procs |-> 0]
    /\ existing = [p \in Procs |-> Null]
    /\ local = [p \in Procs |-> Null]
    /\ batch = [p \in Procs |-> << >>]
    /\ imported = [p \in Procs |-> 0]
    /\ last = NoCall
    /\ vData \in ValidateInputs
    /\ vIsUpdate \in BOOLEAN
    /\ vResult = Null
    /\ fArgs = Null
    /\ fResult = Null
    /\ backup = Null
    /\ state = InitialState

Validate ==
    /\ vResult = Null
    /\ vResult' = validateEntry(vData, vIsUpdate, today)
    /\ UNCHANGED << store, now, nextId, nops, procVars, last, vData, vIsUpdate,
                    fArgs, fResult, backup, state >>

NextValidate == Validate

SpecValidate == InitValidate /\ [][NextValidate]_vars

----------------------------------------------------------------------------
(* Vocabulary of the claims *)

\* a real calendar date written YYYY-MM-DD, not after the day `day`
WellFormedNotAfter(dateString, day) ==
    dateString.kind = "ymd" /\ dateString.day <= day

DateTaken(s, dateString) == \E e \in s : e.entry_date = dateString

IdTaken(s, id) == \E e \in s : e.id = id

\* the call of p leaves the await `label` in this step
Leaves(p, label) == pc[p] = label /\ pc'[p] # label

\* the call of p settles from the await `label` in this step, successfully
Succeeds(p, label) ==
    pc[p] = label /\ pc'[p] = "idle" /\ last'.status = "ok"

----------------------------------------------------------------------------
(* Claims *)

\* C1: in every reachable state no two stored entries have the same
\* entry_date, for every interleaving of create, createToday, update, delete
\* and import, two creates whose duplicate checks both pass included.
C1_UniqueEntryDate ==
    \A e1, e2 \in store : e1.entry_date = e2.entry_date => e1 = e2

\* two creates passed their checks; the add of the second one was rejected
C1_Witness ==
    /\ last.op = "create"
    /\ last.at = "create_add"
    /\ last.error = "duplicate"
    /\ \E e \in store : e.id > 1 /\ e.id \notin ForeignIds

\* C2: create for a date the store already holds fails with the
\* duplicate-date error (a failed storage read aside), and the store still
\* holds exactly the one record for that date, the same as before.
C2_DuplicateCreateFails ==
    [][\A p \in Procs :
          (Leaves(p, "create_read") /\ DateTaken(store, input[p].entry_date))
          => /\ pc'[p] = "idle"
             /\ last'.status = "error"
             /\ last'.error \in {"duplicate", "storage"}
             /\ store' = store
             /\ Cardinality({e \in store' : e.entry_date = input[p].entry_date}) = 1
      ]_vars

C2_Witness ==
    /\ last.op = "create"
    /\ last.at = "create_read"
    /\ last.error = "duplicate"
    /\ Entry1 \in store

\* C3: whatever the payload update accepts, the record it stores and returns
\* has the id, the entry_date and the created_at of the record stored before.
C3_UpdateKeepsIdentity ==
    [][\A p \in Procs :
          (Succeeds(p, "update_write") /\ IdTaken(store, target[p]))
          => LET before == getEntryById(store, target[p])
                 after == last'.value
             IN  /\ after.id = before.id
                 /\ after.entry_date = before.entry_date
                 /\ after.created_at = before.created_at
                 /\ after \in store'
      ]_vars

\* C4: a successful update(id, {rating: R}) of a record that is as the call
\* read it sets its rating to R, changes nothing else of it but updated_at,
\* and leaves every other stored record as it was.
C4_RatingOnlyUpdate ==
    [][\A p \in Procs :
          (/\ Succeeds(p, "update_write")
           /\ DOMAIN input[p] = {"rating"}
           /\ existing[p] \in store)
          => \E time \in existing[p].updated_at..now :
                LET after == [existing[p] EXCEPT !.rating = input[p].rating,
                                                 !.updated_at = time]
                IN  /\ store' = (store \ {existing[p]}) \cup {after}
                    /\ last'.value = after
      ]_vars

\* a rating-only update of Entry1 went through beside another record
C4_Witness ==
    /\ last.op = "update"
    /\ last.fields = {"rating"}
    /\ last.status = "ok"
    /\ last.target = 1
    /\ last.value \in store
    /\ last.value.rating # Entry1.rating
    /\ Cardinality(store) > 1

\* C5: right after a successful create, getByDate of the payload's date
\* returns the record create returned: a fresh id, the payload's date and
\* rating, its text trimmed, and created_at = updated_at.
C5_CreateRoundTrip ==
    [][\A p \in Procs :
          Succeeds(p, "create_add")
          => LET entry == last'.value
             IN  /\ getEntryByDate(store', input[p].entry_date) = entry
                 /\ ~IdTaken(store, entry.id)
                 /\ entry.entry_date = input[p].entry_date
                 /\ entry.gratitude_text = trim(input[p].gratitude_text)
                 /\ entry.gratitude_text.lead = 0 /\ entry.gratitude_text.trail = 0
                 /\ entry.rating = input[p].rating
                 /\ entry.created_at = entry.updated_at
      ]_vars

\* a create of a padded text succeeded and its record is stored
C5_Witness ==
    /\ last.op = "create"
    /\ last.status = "ok"
    /\ last.value \in store
    /\ last.value.gratitude_text = Text(0, 1, 0)
    /\ last.value.created_at = now

\* C6: a successful delete(id) leaves no record under id and every other
\* record as it was; a delete of an id the store does not hold fails with
\* not-found (a failed storage read aside) and leaves the store as it was.
C6_DeleteThenNotFound ==
    [][\A p \in Procs :
          /\ Succeeds(p, "delete_del")
             => /\ getEntryById(store', target[p]) = Null
                /\ store' = {e \in store : e.id # target[p]}
          /\ (Leaves(p, "delete_read") /\ ~IdTaken(store, target[p]))
             => /\ pc'[p] = "idle"
                /\ last'.status = "error"
                /\ last'.error \in {"notfound", "storage"}
                /\ store' = store
      ]_vars

\* Entry1 was deleted, and the second delete of it was answered not-found
C6_Witness ==
    /\ last.op = "delete"
    /\ last.target = 1
    /\ last.error = "notfound"
    /\ ~IdTaken(store, 1)
    /\ nops = 2

\* C7: every stored record has a non-blank gratitude_text of at most 1000
\* characters and a rating among the levels 1..7.
C7_StoredFieldsValid ==
    \A e \in store :
       /\ e.gratitude_text.body >= 1
       /\ length(e.gratitude_text) <= MaxTextLength
       /\ e.rating \in MinRating..MaxRating

\* C8: every stored record satisfies updated_at >= created_at.
C8_UpdatedNotBeforeCreated ==
    \A e \in store : e.updated_at >= e.created_at

\* C9: every entry create or createToday persists has a well-formed
\* YYYY-MM-DD entry_date that is not later than today.
C9_CreatedDateWellFormed ==
    (last.op \in {"create", "createToday"} /\ last.status = "ok")
    => WellFormedNotAfter(last.value.entry_date, today)

\* C10 as stated: a create payload whose text has trimmed length 1..1000,
\* whose rating is in 1..7 and whose date is absent or well-formed and not
\* in the future is valid with no errors, whatever the untrimmed length.
C10_Payload(data, day) ==
    /\ "gratitude_text" \in DOMAIN data
    /\ data.gratitude_text.body \in 1..MaxTextLength
    /\ "rating" \in DOMAIN data
    /\ data.rating \in MinRating..MaxRating
    /\ "entry_date" \in DOMAIN data => WellFormedNotAfter(data.entry_date, day)

C11_Violated(data, day) ==
    {f \in {"gratitude_text"} :
        \/ "gratitude_text" \notin DOMAIN data
        \/ data.gratitude_text.body = 0
        \/ length(data.gratitude_text) > MaxTextLength}
    \cup {f \in {"rating"} :
        \/ "rating" \notin DOMAIN data
        \/ data.rating \notin MinRating..MaxRating}
    \cup {f \in {"entry_date"} :
        /\ "entry_date" \in DOMAIN data
        /\ ~WellFormedNotAfter(data.entry_date, day)}

C11_AllFieldsReported ==
    (vResult # Null /\ ~vIsUpdate)
    => /\ {vResult.errors[i].field : i \in DOMAIN vResult.errors}
             = C11_Violated(vData, today)
       /\ Len(vResult.errors) = Cardinality(C11_Violated(vData, today))
       /\ vResult.valid <=> vResult.errors = << >>

\* C12: with the cache's actions run one at a time after a successful
\* loadEntries (updateEntry with an UpdateEntryInput), whenever createEntry, createTodayEntry, updateEntry,
\* deleteEntry or loadEntries has completed, successfully or not, the cache's
\* entries is the list getAllEntries() would return: the stored records in
\* descending order of entry_date.
C12_CacheMirrorsStore ==
    (/\ pc = Idle
     /\ last.op \in {"create", "createToday", "update", "delete", "loadEntries"})
    => state.entries = getAllEntries(store)

\* the list holds two records after a create, and a failed action left it so
C12_Witness ==
    /\ pc = Idle
    /\ last.op \in {"create", "update", "delete"}
    /\ last.status = "error"
    /\ Len(state.entries) = 2
    /\ state.entries = getAllEntries(store)
    /\ state.error # NoError

\* the views of the cache
Views(st) == << st.entries, st.todayEntry, st.selectedEntry >>

\* the action of p completes in this step
Completes(p) == pc[p] # "idle" /\ pc'[p] = "idle"

\* C13: when the service call of the cache's createEntry, createTodayEntry,
\* updateEntry or deleteEntry fails (validation, duplicate date, not found,
\* storage fault), the action rejects with that failure, error becomes the
\* failure's message, and entries, todayEntry and selectedEntry stay as they
\* are.
C13_FailureSetsErrorOnly ==
    [][\A p \in Procs :
          (/\ Completes(p)
           /\ op[p] \in {"create", "createToday", "update", "delete"}
           /\ last'.status = "error")
          => /\ last'.op = op[p]
             /\ last'.error \in {"validation", "duplicate", "notfound", "storage"}
             /\ state'.error = last'.error
             /\ Views(state') = Views(state)
             /\ state'.isLoading = state.isLoading
      ]_vars

\* a create for a taken date failed beside a loaded list
C13_Witness ==
    /\ last.op = "create"
    /\ last.error = "duplicate"
    /\ state.error = "duplicate"
    /\ state.entries = << Entry1 >>

\* C14: loadEntries, loadTodayEntry, createEntry, updateEntry and deleteEntry
\* set error to null in their first step without touching the views; while
\* an action waits for its service call it changes nothing of the cache; and
\* a view changes only in the step in which a service call has succeeded (or
\* by selectEntry).
C14_ClearThenWriteOnSuccess ==
    [][/\ \A p \in Procs :
            /\ (pc[p] = "idle" /\ pc'[p] # "idle")
               => state'.error = NoError /\ Views(state') = Views(state)
            /\ (pc[p] # "idle" /\ pc'[p] # "idle" /\ pc'[p] # pc[p])
               => state' = state
       /\ Views(state') # Views(state)
          => \/ \E p \in Procs :
                    Completes(p) /\ last'.status = "ok" /\ last'.error = ""
             \/ pc' = pc /\ state'.entries = state.entries
                         /\ state'.todayEntry = state.todayEntry
      ]_vars

\* an action waits for its write, the error of the previous one is cleared
C14_Witness ==
    /\ pc["p1"] = "update_write"
    /\ last.status = "error"
    /\ state.error = NoError

\* the list is in descending order of entry_date
NewestFirst(entries) ==
    \A i, j \in DOMAIN entries :
       i < j => dateRank(entries[i].entry_date) > dateRank(entries[j].entry_date)

\* C15: a successful createEntry(input) of the cache leaves entries with the
\* previous records and the new one, in descending order of entry_date, and
\* sets todayEntry to the new record if input.entry_date is today's date,
\* leaving it as it is otherwise; and in every state reached by a sequence
\* of loadEntries, createEntry, updateEntry and deleteEntry, entries is in
\* descending order of entry_date.
C15_CreateKeepsNewestFirst ==
    /\ [](NewestFirst(state.entries))
    /\ [][\A p \in Procs :
             (/\ Completes(p)
              /\ op[p] \in {"create", "createToday"}
              /\ last'.status = "ok")
             => LET entry == last'.value
                    before == {state.entries[i] : i \in DOMAIN state.entries}
                    after == {state'.entries[i] : i \in DOMAIN state'.entries}
                IN  /\ entry \notin before
                    /\ after = before \cup {entry}
                    /\ Len(state'.entries) = Len(state.entries) + 1
                    /\ NewestFirst(state'.entries)
                    /\ state'.todayEntry =
                          IF input[p].entry_date = Ymd(today) THEN entry
                          ELSE state.todayEntry
                    /\ state'.selectedEntry = state.selectedEntry
         ]_vars

\* a record with the empty date was created after today's: it is last of three
C15_Witness ==
    /\ last.op = "create"
    /\ last.status = "ok"
    /\ Len(state.entries) = 3
    /\ state.entries[3] = last.value
    /\ state.todayEntry = state.entries[1]

\* C16: a successful updateEntry(id, partial) of the cache puts the merged
\* record the service returned in the place of every record with that id in
\* entries, in todayEntry and in selectedEntry, and leaves the other records,
\* the length and order of entries, and a todayEntry or selectedEntry with
\* another id as they are.
C16_UpdatePatchesAllViews ==
    [][\A p \in Procs :
          (Completes(p) /\ op[p] = "update" /\ last'.status = "ok")
          => LET id == target[p]
                 merged == last'.value
                 Patched(e) == IF e # Null /\ e.id = id THEN merged ELSE e
             IN  /\ Len(state'.entries) = Len(state.entries)
                 /\ \A i \in DOMAIN state.entries :
                       state'.entries[i] = Patched(state.entries[i])
                 /\ state'.todayEntry = Patched(state.todayEntry)
                 /\ state'.selectedEntry = Patched(state.selectedEntry)
      ]_vars

\* today's record was created, selected, and its text updated: the list,
\* todayEntry and selectedEntry hold the merged record
C16_Witness ==
    /\ last.op = "update"
    /\ last.status = "ok"
    /\ last.target = 2
    /\ last.fields = {"gratitude_text"}
    /\ last.value.gratitude_text = TextB
    /\ last.value.rating = MinRating
    /\ state.entries = << last.value >>
    /\ state.todayEntry = last.value
    /\ state.selectedEntry = last.value

\* C17: after a successful deleteEntry(id) of the cache entries holds no
\* record with that id, todayEntry and selectedEntry are null if they had
\* that id, and every record with another id, in the list or in todayEntry
\* or selectedEntry, is as it was.
C17_DeleteClearsAllViews ==
    [][\A p \in Procs :
          (Completes(p) /\ op[p] = "delete" /\ last'.status = "ok")
          => LET id == target[p]
                 Other(e) == e.id # id
                 Cleared(e) == IF e # Null /\ e.id = id THEN Null ELSE e
             IN  /\ \A i \in DOMAIN state'.entries : state'.entries[i].id # id
                 /\ state'.entries = SelectSeq(state.entries, Other)
                 /\ state'.todayEntry = Cleared(state.todayEntry)
                 /\ state'.selectedEntry = Cleared(state.selectedEntry)
      ]_vars

\* today's record was created and then deleted: the list and todayEntry
\* have lost it
C17_Witness ==
    /\ last.op = "delete"
    /\ last.status = "ok"
    /\ last.target = 2
    /\ state.entries = << >>
    /\ state.todayEntry = Null
    /\ store = {Entry1}

\* C18: if every storage call eventually resolves or rejects (that of
\* loadEntries is all it takes), every loadEntries is followed by a state with isLoading = false; when its read
\* succeeded entries is the fetched list, when it failed error is the
\* message, entries is as before, and the action resolves all the same.
C18_LoadEntriesSettles ==
    /\ \A p \in Procs : (pc[p] = "load_read") ~> (pc[p] = "idle" /\ ~state.isLoading)
    /\ [][\A p \in Procs :
             (Completes(p) /\ op[p] = "loadEntries")
             => /\ ~state'.isLoading
                /\ last'.status = "ok"
                /\ IF last'.error = ""
                   THEN /\ state'.entries = getAllEntries(store)
                        /\ state'.error = state.error
                   ELSE /\ state'.error = last'.error
                        /\ state'.error # NoError
                        /\ state'.entries = state.entries
                /\ state'.todayEntry = state.todayEntry
                /\ state'.selectedEntry = state.selectedEntry
         ]_vars

\* a loadEntries whose read failed has completed: isLoading is false again
\* and the list loaded before is still there
C18_Witness ==
    /\ last.op = "loadEntries"
    /\ last.status = "ok"
    /\ last.error = "storage"
    /\ state.error = "storage"
    /\ ~state.isLoading
    /\ state.entries = << Entry1 >>

\* C19: every gateway operation whose storage call fails reports the failure
\* to its caller: no call in which a storage call failed resolves with a
\* normal result.
C19_FaultsSurface ==
    last.error = "storage" => last.status = "error"

\* C20: importDatabase takes the records of its input one by one: a record
\* whose id or entry_date is already in the store (put there before the
\* import or by an earlier record of the batch) is skipped and the loop goes
\* on; every other record is inserted (unless the storage itself fails on
\* that add, which skips the record likewise); the records already stored
\* stay as they are; and the number returned is the number of records the
\* import added.
C20_ImportSkipsCollisions ==
    [][\A p \in Procs :
          /\ (pc[p] = "import_loop" /\ batch[p] # << >> /\ batch'[p] # batch[p])
             => LET entry == Head(batch[p])
                    collides == \/ IdTaken(store, entry.id)
                                \/ DateTaken(store, entry.entry_date)
                    added == store' = store \cup {entry} /\ store' # store
                IN  /\ pc'[p] = "import_loop"
                    /\ batch'[p] = Tail(batch[p])
                    /\ collides => store' = store
                    /\ ~collides => added \/ (store' = store /\ local'[p].error = "storage")
                    /\ store \subseteq store'
                    /\ imported'[p] = imported[p] + (IF added THEN 1 ELSE 0)
          /\ (pc[p] = "import_loop" /\ pc'[p] = "idle")
             => /\ batch[p] = << >>
                /\ last'.status = "ok"
                /\ last'.count = imported[p]
                /\ store' = store
      ]_vars

\* an import of two records has returned 1: one record was added, the one
\* colliding with Entry1 skipped, and Entry1 is as it was
C20_Witness ==
    /\ last.op = "import"
    /\ last.status = "ok"
    /\ last.count = 1
    /\ Cardinality(store) = 2
    /\ Entry1 \in store
    /\ nops = 1

----------------------------------------------------------------------------
(* exportDatabase, clearDatabase and the restore of a backup *)

\* db.entries.toArray(): the records in the order of their primary key
RECURSIVE toArray(_)
toArray(s) ==
    IF s = {} THEN << >>
    ELSE LET first == CHOOSE e \in s : \A f \in s : e.id <= f.id
         IN  << first >> \o toArray(s \ {first})

NumberFields == {"rating", "created_at", "updated_at"}

\* mutant: the number is written whatever it is
stringifyNumber_Verbatim(x) == x

\* JSON.stringify of a number: NaN has no JSON notation and is written null
stringifyNumber(x) == IF x = NaN THEN NullNumber ELSE x

\* JSON.stringify(entries, null, 2), the text being modelled by the array of
\* objects it denotes: every own property of every record, strings written
\* in full, numbers as JSON can write them
stringify(entries) ==
    [i \in DOMAIN entries |->
        [f \in DOMAIN entries[i] |->
            IF f \in NumberFields THEN stringifyNumber(entries[i][f])
            ELSE entries[i][f]]]

\* JSON.parse of such a text: the objects it denotes, null where it says null
parse(json) == json

\* exportDatabase(): the read of the whole table is issued
ExportCall(p) ==
    /\ pc[p] = "idle"
    /\ Frame(p, "export_read", "export", Null, 0, Null, Null, << >>, 0)
    /\ UNCHANGED << store, now, nextId, nops, last, aloneVars >>

\* toArray() settles: `entries` is stringified and returned, or the failure
\* is rethrown; backup keeps both the array read and the string
ExportRead(p, ok) ==
    /\ pc[p] = "export_read"
    /\ IF ok
       THEN /\ backup' = [entries |-> toArray(store),
                          json |-> stringify(toArray(store))]
            /\ SettleAt(p, Ok(Null))
       ELSE /\ UNCHANGED backup
            /\ SettleAt(p, Err("storage"))
    /\ UNCHANGED << store, now, nextId, nops, valVars, fArgs, fResult >>

\* clearDatabase(): db.entries.clear() is issued
ClearCall(p) ==
    /\ pc[p] = "idle"
    /\ Frame(p, "clear_run", "clear", Null, 0, Null, Null, << >>, 0)
    /\ UNCHANGED << store, now, nextId, nops, last, aloneVars >>

ClearRun(p, ok) ==
    /\ pc[p] = "clear_run"
    /\ IF ok
       THEN store' = {} /\ SettleAt(p, Ok(Null))
       ELSE UNCHANGED store /\ SettleAt(p, Err("storage"))
    /\ UNCHANGED << now, nextId, nops, aloneVars >>

\* importDatabase(json) of the string the export returned: it parses as an
\* array, and the loop starts
RestoreCall(p) ==
    /\ pc[p] = "idle"
    /\ backup # Null
    /\ Frame(p, "import_loop", "import", Null, 0, Null, Null, parse(backup.json), 0)
    /\ UNCHANGED << store, now, nextId, nops, last, aloneVars >>

\* what the forms and a typed caller pass: a rating is a number
BackupCreateInputs ==
    {Payload({}, {d}, {TextA}, {r}, {}) : d \in {Ymd(1), Ymd(2)}, r \in {MaxRating, NaN}}

BackupUpdateInputs ==
    {Payload({}, {}, {TextB}, {}, {})}
    \cup {Payload({}, {}, {}, {r}, {}) : r \in {MinRating, NaN}}

\* a jar is filled by creates, updates and deletes, one call at a time; it
\* is then exported, emptied, and restored from the exported string by adds
\* the storage does not fail
NextBackup ==
    /\ UNCHANGED state
    /\ \/ /\ backup = Null
          /\ \/ \E data \in BackupCreateInputs : CreateCall("p1", data)
             \/ \E ok \in BOOLEAN : CreateRead("p1", ok)
             \/ \E ok \in BOOLEAN, kind \in {"duplicate", "storage"} :
                   CreateAdd("p1", ok, kind)
             \/ \E id \in KnownIds(nextId), updates \in BackupUpdateInputs :
                   UpdateCall("p1", id, updates)
             \/ \E ok \in BOOLEAN : UpdateRead("p1", ok)
             \/ \E ok \in BOOLEAN : UpdateWrite("p1", ok)
             \/ \E id \in KnownIds(nextId) : DeleteCall("p1", id)
             \/ \E ok \in BOOLEAN : DeleteRead("p1", ok)
             \/ \E ok \in BOOLEAN : DeleteDel("p1", ok)
             \/ Tick
             \/ ExportCall("p1")
             \/ \E ok \in BOOLEAN : ExportRead("p1", ok)
       \/ /\ backup # Null
          /\ last.op \in {"export", "clear"}
          /\ \/ store # {} /\ ClearCall("p1")
             \/ \E ok \in BOOLEAN : ClearRun("p1", ok)
             \/ store = {} /\ RestoreCall("p1")
             \/ ImportAdd("p1", TRUE)
             \/ ImportReturn("p1")

SpecBackup == Init /\ [][NextBackup]_vars

----------------------------------------------------------------------------
(* Export and import *)

\* the records of an array
Records(entries) == {entries[i] : i \in DOMAIN entries}

\* C21: once the string exportDatabase returned has been imported into the
\* emptied store, the store holds exactly the records that were exported,
\* field by field, and the import returned their number
C21_RestoreEqualsExport ==
    (backup # Null /\ last.op = "import" /\ last.status = "ok")
    => /\ store = Records(backup.entries)
       /\ last.count = Len(backup.entries)

----------------------------------------------------------------------------
(* The calendar: a "ymd" date string carries the number of its day, counted *)
(* from 2022-12-31                                                          *)

MaxLen == 3        \* entries in the list given to calculateMonthStats

isLeapYear(year) == (year % 4 = 0 /\ year % 100 # 0) \/ year % 400 = 0

\* new Date(year, month, 0).getDate(), for a month in 1..12
daysInMonth(year, month) ==
    CASE month = 2 -> IF isLeapYear(year) THEN 29 ELSE 28
      [] month \in {4, 6, 9, 11} -> 30
      [] OTHER -> 31

RECURSIVE daysBeforeMonth(_, _)
daysBeforeMonth(year, month) ==
    IF month = 1 THEN 0
    ELSE daysBeforeMonth(year, month - 1) + daysInMonth(year, month - 1)

RECURSIVE daysBeforeYear(_)
daysBeforeYear(year) ==
    IF year <= 2023 THEN 0
    ELSE daysBeforeYear(year - 1) + (IF isLeapYear(year - 1) THEN 366 ELSE 365)

\* getDateString(new Date(year, month - 1, day))
getDateString(year, month, day) ==
    Ymd(daysBeforeYear(year) + daysBeforeMonth(year, month) + day)

getDatesInMonth(year, month) ==
    [day \in 1..daysInMonth(year, month) |-> getDateString(year, month, day)]

----------------------------------------------------------------------------
(* calculateMonthStats *)

\* mutant: every entry is taken, whatever its month
monthEntriesOf_All(entries, year, month) == entries

\* entries.filter((e) => datesInMonth.includes(e.entry_date))
monthEntriesOf(entries, year, month) ==
    LET datesInMonth == getDatesInMonth(year, month)
        inMonth(e) == \E i \in DOMAIN datesInMonth : datesInMonth[i] = e.entry_date
    IN  SelectSeq(entries, inMonth)

RECURSIVE sumOfRatings(_)
sumOfRatings(seq) ==
    IF seq = << >> THEN 0 ELSE Head(seq).rating + sumOfRatings(Tail(seq))

\* [...monthEntries].sort((a, b) => b.rating - a.rating), a stable sort:
\* equal ratings keep their order
RECURSIVE sortByRatingDesc(_)
sortByRatingDesc(seq) ==
    IF seq = << >> THEN << >>
    ELSE LET n == Len(seq)
             x == seq[n]
             sorted == sortByRatingDesc(SubSeq(seq, 1, n - 1))
             k == Cardinality({i \in 1..Len(sorted) : sorted[i].rating - x.rating >= 0})
         IN  SubSeq(sorted, 1, k) \o << x >> \o SubSeq(sorted, k + 1, Len(sorted))

\* mutant: the first entry of the month, whatever its rating
bestDayOf_First(monthEntries) ==
    IF Len(monthEntries) > 0
    THEN [date |-> monthEntries[1].entry_date, rating |-> monthEntries[1].rating]
    ELSE Null

bestDayOf(monthEntries) ==
    IF Len(monthEntries) > 0
    THEN LET best == sortByRatingDesc(monthEntries)[1]
         IN  [date |-> best.entry_date, rating |-> best.rating]
    ELSE Null

\* mutant: the percentage is cut, not rounded
completionRateOf_Floor(totalEntries, totalDaysInMonth) ==
    IF totalDaysInMonth > 0 THEN (100 * totalEntries) \div totalDaysInMonth ELSE 0

\* Math.round((totalEntries / totalDaysInMonth) * 100): the quotient is never
\* half-way between two integers for a month of 28 to 31 days, so this is
\* floor(x + 1/2) computed on integers
completionRateOf(totalEntries, totalDaysInMonth) ==
    IF totalDaysInMonth > 0
    THEN (200 * totalEntries + totalDaysInMonth) \div (2 * totalDaysInMonth)
    ELSE 0

\* averageRating is the quotient sum / count, kept as the two numbers
calculateMonthStats(entries, year, month) ==
    LET monthEntries == monthEntriesOf(entries, year, month)
        totalEntries == Len(monthEntries)
    IN  [totalEntries |-> totalEntries,
         averageRating |-> IF totalEntries > 0
                           THEN [sum |-> sumOfRatings(monthEntries), count |-> totalEntries]
                           ELSE Null,
         bestDay |-> bestDayOf(monthEntries),
         completionRate |->
             completionRateOf(totalEntries, Len(getDatesInMonth(year, month)))]

\* the months asked for: of 30, 31, 29 and 28 days
StatsMonths == {<< 2024, 6 >>, << 2024, 7 >>, << 2024, 2 >>, << 2023, 2 >>}

\* entries of those months, of a day two of them share, and one without date
StatsDates ==
    {getDateString(2024, 6, 1), getDateString(2024, 6, 2), getDateString(2024, 7, 31),
     getDateString(2024, 2, 29), getDateString(2023, 2, 28), EmptyDate}

StatsEntries ==
    {Entry(1, d, Text(0, 1, 0), r, 0, 0) : d \in StatsDates, r \in {MinRating, MaxRating}}

\* the first n days of a month, one entry each, and `again` more entries
\* for its first day
DaysOfMonth(year, month, n, again) ==
    [i \in 1..(n + again) |->
        Entry(1, getDateString(year, month, IF i <= n THEN i ELSE 1),
              Text(0, 1, 0), MaxRating, 0, 0)]

\* short lists of any make-up, and lists that fill a month day by day
StatsArgs ==
    {[entries |-> es, year |-> ym[1], month |-> ym[2]] :
        es \in UNION {[1..n -> StatsEntries] : n \in 0..MaxLen}, ym \in StatsMonths}
    \cup UNION {{[entries |-> DaysOfMonth(ym[1], ym[2], n, again),
                  year |-> ym[1], month |-> ym[2]] :
                    n \in 1..daysInMonth(ym[1], ym[2]), again \in 0..1} :
                ym \in StatsMonths}

InitMonthStats ==
    /\ store = {Entry1}
    /\ now = 1
    /\ nextId = 2
    /\ nops = 0
    /\ pc = Idle
    /\ op = [p \in Procs |-> "none"]
    /\ input = [p \in Procs |-> Null]
    /\ target = [p \in Procs |-> 0]
    /\ existing = [p \in Procs |-> Null]
    /\ local = [p \in Procs |-> Null]
    /\ batch = [p \in Procs |-> << >>]
    /\ imported = [p \in Procs |-> 0]
    /\ last = NoCall
    /\ vData = Null
    /\ vIsUpdate = FALSE
    /\ vResult = Null
    /\ fArgs \in StatsArgs
    /\ fResult = Null
    /\ backup = Null
    /\ state = InitialState

MonthStats ==
    /\ fResult = Null
    /\ fResult' = calculateMonthStats(fArgs.entries, fArgs.year, fArgs.month)
    /\ UNCHANGED << store, now, nextId, nops, procVars, last, valVars, fArgs, backup, state >>

NextMonthStats == MonthStats

SpecMonthStats == InitMonthStats /\ [][NextMonthStats]_vars

----------------------------------------------------------------------------
(* Month statistics *)

\* the date string names a day of the month
InMonth(dateString, year, month) ==
    /\ dateString.kind = "ymd"
    /\ dateString.day >= getDateString(year, month, 1).day
    /\ dateString.day <= getDateString(year, month, daysInMonth(year, month)).day

\* the places of the list that hold an entry of the month asked for
MonthPlaces(args) ==
    {i \in DOMAIN args.entries :
        InMonth(args.entries[i].entry_date, args.year, args.month)}

\* C22: bestDay is the date and the rating of the first entry of the list
\* among those of the month whose rating is the month's maximum, and it is
\* null exactly when the list has no entry of the month
C22_BestDayFirstMaximum ==
    fResult # Null
    => LET places == MonthPlaces(fArgs)
       IN  /\ (fResult.bestDay = Null) <=> (places = {})
           /\ places # {}
              => \E i \in places :
                    /\ \A j \in places : fArgs.entries[j].rating <= fArgs.entries[i].rating
                    /\ \A j \in places :
                          fArgs.entries[j].rating = fArgs.entries[i].rating => i <= j
                    /\ fResult.bestDay = [date |-> fArgs.entries[i].entry_date,
                                          rating |-> fArgs.entries[i].rating]

\* two entries of the month share the maximum, behind a lower one and an
\* entry of another month
C22_Witness ==
    /\ fResult # Null
    /\ fArgs.year = 2024 /\ fArgs.month = 6
    /\ Len(fArgs.entries) = 3
    /\ fArgs.entries[1].entry_date = getDateString(2024, 6, 1)
    /\ fArgs.entries[1].rating = MinRating
    /\ fArgs.entries[2].entry_date = getDateString(2024, 6, 2)
    /\ fArgs.entries[2].rating = MaxRating
    /\ fArgs.entries[3].entry_date = getDateString(2024, 6, 1)
    /\ fArgs.entries[3].rating = MaxRating
    /\ fResult.bestDay = [date |-> getDateString(2024, 6, 2), rating |-> MaxRating]

\* C23: totalEntries is the number of entries of the list whose date lies in
\* the month, and a month without entries has no average, no best day and
\* the rate 0
C23_TotalCountsMonthOnly ==
    fResult # Null
    => /\ fResult.totalEntries = Cardinality(MonthPlaces(fArgs))
       /\ MonthPlaces(fArgs) = {}
          => fResult = [totalEntries |-> 0, averageRating |-> Null,
                        bestDay |-> Null, completionRate |-> 0]

\* a list with entries of other months only, and one with both
C23_Witness ==
    /\ fResult # Null
    /\ fArgs.year = 2024 /\ fArgs.month = 2
    /\ Len(fArgs.entries) = 2
    /\ fArgs.entries[1].entry_date = getDateString(2023, 2, 28)
    /\ fArgs.entries[2].entry_date = getDateString(2024, 2, 29)
    /\ fResult.totalEntries = 1

\* C24: completionRate is the integer nearest to 100 * totalEntries /
\* daysInMonth (2 entries of a month of 30 days give 7), and lies in 0..100
\* when the dates of the list are pairwise distinct
C24_CompletionRateRounded ==
    fResult # Null
    => LET days == daysInMonth(fArgs.year, fArgs.month)
           rate == fResult.completionRate
       IN  /\ rate \in Int
           /\ 2 * (100 * fResult.totalEntries - rate * days) <= days
           /\ 2 * (rate * days - 100 * fResult.totalEntries) < days
           /\ (days = 30 /\ fResult.totalEntries = 2) => rate = 7
           /\ (\A i, j \in DOMAIN fArgs.entries :
                  i # j => fArgs.entries[i].entry_date # fArgs.entries[j].entry_date)
              => rate \in 0..100

C24_Witness ==
    /\ fResult # Null
    /\ fArgs.year = 2024 /\ fArgs.month = 6
    /\ Len(fArgs.entries) = 2
    /\ fResult.totalEntries = 2
    /\ fArgs.entries[1].entry_date # fArgs.entries[2].entry_date
    /\ fResult.completionRate = 7

----------------------------------------------------------------------------
(* getRelativeTime *)

MaxDaysAgo == 740  \* how far back the dates given to getRelativeTime lie

\* a label is modelled by its wording, with # where the number stands, and
\* the number
Label(text, count) == [text |-> text, count |-> count]

\* differenceInDays(dateLeft, dateRight) of two local midnights
differenceInDays(dayLeft, dayRight) == dayLeft - dayRight

\* mutant: the count is always followed by the plural
ago_Plural(count, singular, plural) == Label(plural, count)

\* count === 1 ? '1 week ago' : `${count} weeks ago`
ago(count, singular, plural) ==
    IF count = 1 THEN Label(singular, 1) ELSE Label(plural, count)

\* parseEntryDate throws for a string parseISO cannot read, and the catch
\* returns the string itself
getRelativeTime(dateString, day) ==
    IF ~parseISOValid(dateString) THEN dateString
    ELSE LET days == differenceInDays(day, dateString.day)
         IN  IF days = 0 THEN Label("Today", 0)
             ELSE IF days = 1 THEN Label("Yesterday", 0)
             ELSE IF days = -1 THEN Label("Tomorrow", 0)
             ELSE IF days < 0 THEN Label("In # days", -days)
             ELSE IF days < 7 THEN Label("# days ago", days)
             ELSE IF days < 30 THEN ago(days \div 7, "# week ago", "# weeks ago")
             ELSE IF days < 365 THEN ago(days \div 30, "# month ago", "# months ago")
             ELSE ago(days \div 365, "# year ago", "# years ago")

\* dates up to MaxDaysAgo days back and a few days ahead, and strings that
\* are no date
RelativeTimeArgs ==
    {[dateString |-> Ymd(Day(MaxDaysAgo) - d)] : d \in (-3)..MaxDaysAgo}
    \cup {[dateString |-> x] : x \in {EmptyDate, BadCalDate}}

InitRelativeTime ==
    /\ store = {Entry1}
    /\ now = MaxDaysAgo
    /\ nextId = 2
    /\ nops = 0
    /\ pc = Idle
    /\ op = [p \in Procs |-> "none"]
    /\ input = [p \in Procs |-> Null]
    /\ target = [p \in Procs |-> 0]
    /\ existing = [p \in Procs |-> Null]
    /\ local = [p \in Procs |-> Null]
    /\ batch = [p \in Procs |-> << >>]
    /\ imported = [p \in Procs |-> 0]
    /\ last = NoCall
    /\ vData = Null
    /\ vIsUpdate = FALSE
    /\ vResult = Null
    /\ fArgs \in RelativeTimeArgs
    /\ fResult = Null
    /\ backup = Null
    /\ state = InitialState

RelativeTime ==
    /\ fResult = Null
    /\ fResult' = getRelativeTime(fArgs.dateString, today)
    /\ UNCHANGED << store, now, nextId, nops, procVars, last, valVars, fArgs, backup, state >>

NextRelativeTime == RelativeTime

SpecRelativeTime == InitRelativeTime /\ [][NextRelativeTime]_vars

----------------------------------------------------------------------------
(* Relative labels *)

\* the label of the claim for a date d whole days before today
C25_Label(d) ==
    CASE d = 0 -> Label("Today", 0)
      [] d = 1 -> Label("Yesterday", 0)
      [] d = -1 -> Label("Tomorrow", 0)
      [] d < -1 -> Label("In # days", -d)
      [] d >= 2 /\ d < 7 -> Label("# days ago", d)
      [] d >= 7 /\ d < 30 ->
            Label(IF d \div 7 = 1 THEN "# week ago" ELSE "# weeks ago", d \div 7)
      [] d >= 30 /\ d < 365 ->
            Label(IF d \div 30 = 1 THEN "# month ago" ELSE "# months ago", d \div 30)
      [] d >= 365 ->
            Label(IF d \div 365 = 1 THEN "# year ago" ELSE "# years ago", d \div 365)

\* C25: for a valid date d whole days before today (after it when d is
\* negative) the label is the one the table of the claim gives, with the
\* singular when the count is 1: 8 days give '1 week ago'
C25_RelativeLabel ==
    (fResult # Null /\ isValidDateString(fArgs.dateString))
    => /\ fResult = C25_Label(today - fArgs.dateString.day)
       /\ today - fArgs.dateString.day = 8 => fResult = Label("# week ago", 1)

\* a date two years back, which every branch but the last has passed over
C25_Witness ==
    /\ fResult # Null
    /\ isValidDateString(fArgs.dateString)
    /\ today - fArgs.dateString.day = 2 * 365
    /\ fResult = Label("# years ago", 2)

----------------------------------------------------------------------------
(* Overlapping calls *)

\* the payload carries nothing but what UpdateEntryInput allows
TypedUpdate(data) == DOMAIN data \subseteq {"gratitude_text", "rating"}

\* C26: when an update with a typed payload reports success, the store holds
\* under its id the merged record it returned, and the write has left every
\* stored field the payload did not name (updated_at aside) as it was, so
\* that what an overlapping update of another field wrote is kept
C26_UpdateSuccessIsStored ==
    [][\A p \in Procs :
          (Succeeds(p, "update_write") /\ TypedUpdate(input[p]))
          => /\ getEntryById(store', target[p]) = last'.value
             /\ getEntryById(store, target[p]) # Null
                => \A f \in DOMAIN getEntryById(store, target[p])
                               \ (DOMAIN input[p] \cup {"updated_at"}) :
                      getEntryById(store', target[p])[f] = getEntryById(store, target[p])[f]
      ]_vars

----------------------------------------------------------------------------
(* The cache when the result of a storage call is seen apart from the call *)
(* itself: the database performs the last operation of a service call in   *)
(* one step, and the promise of the service reaches the action that awaits *)
(* it in a later one.  The actions do nothing to order these deliveries;   *)
(* here they come in any order.                                            *)

\* the storage call of p is done, and its outcome r is on its way
OverlapHold(p, r) == Goto(p, "settled", r, local[p])

\* getAllEntries(): the query runs
OverlapLoadRead(p, ok) ==
    /\ pc[p] = "load_read"
    /\ OverlapHold(p, IF ok THEN Ok(getAllEntries(store)) ELSE Err("storage"))
    /\ UNCHANGED << store, now, nextId, nops, aloneVars, state >>

\* db.entries.add(entry) runs
OverlapCreateAdd(p, ok, kind) ==
    /\ pc[p] = "create_add"
    /\ IF ok /\ dbCanAdd(store, local[p])
       THEN /\ store' = dbAdd(store, local[p])
            /\ OverlapHold(p, Ok(local[p]))
            /\ kind = "storage"
       ELSE /\ UNCHANGED store
            /\ OverlapHold(p, Err(kind))
            /\ (ok \/ kind = "storage")
    /\ UNCHANGED << now, nextId, nops, aloneVars, state >>

\* db.entries.update(id, updatedEntry) runs
OverlapUpdateWrite(p, ok) ==
    /\ pc[p] = "update_write"
    /\ IF ~ok
       THEN UNCHANGED store /\ OverlapHold(p, Err("storage"))
       ELSE \E out \in dbUpdate(store, target[p], local[p]) :
               /\ store' = out.store
               /\ OverlapHold(p, IF out.ok THEN Ok(local[p]) ELSE Err("storage"))
    /\ UNCHANGED << now, nextId, nops, aloneVars, state >>

\* db.entries.delete(id) runs
OverlapDeleteDel(p, ok) ==
    /\ pc[p] = "delete_del"
    /\ IF ok
       THEN store' = dbDelete(store, target[p]) /\ OverlapHold(p, Ok(Null))
       ELSE UNCHANGED store /\ OverlapHold(p, Err("storage"))
    /\ UNCHANGED << now, nextId, nops, aloneVars, state >>

\* the awaited promise settles and the action goes on: loadEntries replaces
\* the list or records the failure, the others run their reducer or their
\* catch block
OverlapResume(p) ==
    /\ pc[p] = "settled"
    /\ IF op[p] = "loadEntries"
       THEN /\ state' = loadedState(state, existing[p].status = "ok", existing[p].value)
            /\ SettleAt(p, IF existing[p].status = "ok"
                           THEN Ok(Null) ELSE Caught("storage", Null))
       ELSE /\ SettleAt(p, existing[p])
            /\ cacheResume(p)
    /\ UNCHANGED << store, now, nextId, nops, aloneVars >>

\* what the forms pass to createEntry: today's entry or yesterday's
OverlapCreateInputs ==
    {Payload({}, {d}, {TextA}, {MaxRating}, {}) : d \in {Ymd(1), Ymd(2)}}

NextCacheOverlap ==
    \/ \E p \in Procs, data \in OverlapCreateInputs : CacheCreateEntry(p, "create", data)
    \/ \E p \in Procs, id \in KnownIds(nextId), updates \in FormUpdateInputs :
          CacheUpdateEntry(p, id, updates)
    \/ \E p \in Procs, id \in KnownIds(nextId) : CacheDeleteEntry(p, id)
    \/ \E p \in Procs : CacheLoadEntries(p)
    \/ \E p \in Procs : CacheRejected(p)
    \/ \E p \in Procs, ok \in BOOLEAN : CacheCreateRead(p, ok)
    \/ \E p \in Procs, ok \in BOOLEAN : CacheUpdateRead(p, ok)
    \/ \E p \in Procs, ok \in BOOLEAN : CacheDeleteRead(p, ok)
    \/ \E p \in Procs, ok \in BOOLEAN : OverlapLoadRead(p, ok)
    \/ \E p \in Procs, ok \in BOOLEAN, kind \in {"duplicate", "storage"} :
          OverlapCreateAdd(p, ok, kind)
    \/ \E p \in Procs, ok \in BOOLEAN : OverlapUpdateWrite(p, ok)
    \/ \E p \in Procs, ok \in BOOLEAN : OverlapDeleteDel(p, ok)
    \/ \E p \in Procs : OverlapResume(p)

\* the list has been loaded; from then on actions overlap
SpecCacheOverlap == InitLoaded /\ [][NextCacheOverlap]_vars

----------------------------------------------------------------------------
(* Overlapping actions of the cache *)

C29_LoadingWhileInFlight ==
    (\E p \in Procs : op[p] = "loadEntries") => state.isLoading

----------------------------------------------------------------------------
(* Validation comes first *)

\* a payload the gateway has to refuse: a text that is missing (create),
\* blank or too long, a rating that is missing (create) or off the scale, a
\* date (create) that is malformed or in the future
C30_Invalid(data, isUpdate, day) ==
    \/ /\ ~isUpdate \/ "gratitude_text" \in DOMAIN data
       /\ \/ "gratitude_text" \notin DOMAIN data
          \/ data.gratitude_text.body = 0
          \/ length(data.gratitude_text) > MaxTextLength
    \/ /\ ~isUpdate \/ "rating" \in DOMAIN data
       /\ \/ "rating" \notin DOMAIN data
          \/ data.rating \notin MinRating..MaxRating
    \/ /\ ~isUpdate
       /\ "entry_date" \in DOMAIN data
       /\ data.entry_date # EmptyDate
       /\ ~WellFormedNotAfter(data.entry_date, day)

\* a call is refused in the step that issues it: nothing is awaited, the
\* caller gets the validation error, the store is as it was
C30_Refused ==
    /\ last'.at = "call"
    /\ last'.status = "error"
    /\ last'.error = "validation"
    /\ store' = store

\* C30: a create or an update with an invalid payload fails with the
\* validation error before any read or write of the store is issued,
\* whether or not the date is taken or the id is known, and the store is
\* unchanged: a call that issues its read carries no invalid payload, and a
\* call of create or update that issues none is refused as invalid
C30_ValidateBeforeStore ==
    [][/\ \A p \in Procs :
             (pc[p] = "idle" /\ pc'[p] \in {"create_read", "update_read"})
             => ~C30_Invalid(input'[p], pc'[p] = "update_read", today)
       /\ (/\ nops' = nops + 1
           /\ now' = now
           /\ pc' = pc
           /\ last'.op \in {"create", "createToday", "update"})
          => C30_Refused
      ]_vars

\* an invalid update of an id the store does not know was refused as
\* invalid, not as not found, and an entry whose date an invalid create may
\* have named is stored
C30_Witness ==
    /\ last.op = "update"
    /\ last.target \in ForeignIds
    /\ ~IdTaken(store, last.target)
    /\ last.at = "call"
    /\ last.error = "validation"
    /\ DateTaken(store, Ymd(1))

====
